---- MODULE Spec2Model ----
(***************************************************************************)
(* Forward-chaining saturator of main.py (axiom functions over string      *)
(* facts, solve_forward_chaining, and the three-run script), together with *)
(* the best-first SearchEngine loop described in the specification.        *)
(*                                                                         *)
(* A fact is a Python string.  It is modelled as the sequence of its       *)
(* lexical tokens, e.g. "Parent(Alice, Bob)" is                            *)
(*     << "Parent(", "Alice", ",", " ", "Bob", ")" >>                      *)
(* so that slicing, split(','), strip() and f-string formatting are        *)
(* computed on the text and "Parent(Alice, Bob)" differs from              *)
(* "Parent(Alice,Bob)".                                                    *)
(***************************************************************************)
EXTENDS Integers, Sequences, FiniteSets, TLC

(***************************************************************************)
(* String operations                                                       *)
(***************************************************************************)

\* str.startswith(pred) for a one-token prefix such as "Parent("
StartsWith(f, pred) == Len(f) >= 1 /\ f[1] = pred

\* fact[k:-1] where k is the length of the leading predicate token
Content(f) == SubSeq(f, 2, Len(f) - 1)

RECURSIVE LStrip(_)
LStrip(s) == IF Len(s) > 0 /\ s[1] = " " THEN LStrip(Tail(s)) ELSE s

RECURSIVE RStrip(_)
RStrip(s) == IF Len(s) > 0 /\ s[Len(s)] = " " THEN RStrip(SubSeq(s, 1, Len(s) - 1)) ELSE s

\* str.strip()
Strip(s) == RStrip(LStrip(s))

\* str.split(',')
RECURSIVE Split(_)
Split(s) ==
    IF \E i \in 1..Len(s) : s[i] = ","
    THEN LET i == CHOOSE k \in 1..Len(s) : s[k] = "," /\ \A j \in 1..(k - 1) : s[j] # ","
         IN  <<SubSeq(s, 1, i - 1)>> \o Split(SubSeq(s, i + 1, Len(s)))
    ELSE <<s>>

\* parts = content.split(','); if len(parts) == 2: (parts[0].strip(), parts[1].strip())
TwoParts(f) ==
    LET parts == Split(Content(f))
    IN  IF Len(parts) = 2 THEN {<<Strip(parts[1]), Strip(parts[2])>>} ELSE {}

\* the (x, y) pairs parsed out of the facts that start with pred
Pairs(facts, pred) == UNION {TwoParts(f) : f \in {g \in facts : StartsWith(g, pred)}}

\* f"Pred({x},{y})"
Fmt2(pred, x, y) == <<pred>> \o x \o <<",">> \o y \o <<")">>

\* f"Pred({x})"
Fmt1(pred, x) == <<pred>> \o x \o <<")">>

\* rank of a token in Python's string order (upper-case letters sort before '_')
TokenRank(t) ==
    CASE t = " " -> 0
      [] t = "Alice" -> 1
      [] t = "Bob" -> 2
      [] t = "Charles" -> 3
      [] t = "SharedParent_" -> 4
      [] t = "_" -> 5
      [] OTHER -> 6

\* x <= y in Python's string order
RECURSIVE StrLeq(_, _)
StrLeq(x, y) ==
    IF Len(x) = 0 THEN TRUE
    ELSE IF Len(y) = 0 THEN FALSE
    ELSE IF TokenRank(x[1]) < TokenRank(y[1]) THEN TRUE
    ELSE IF TokenRank(x[1]) > TokenRank(y[1]) THEN FALSE
    ELSE StrLeq(Tail(x), Tail(y))

\* sorted((a, b))
Sorted2(a, b) == IF StrLeq(a, b) THEN <<a, b>> ELSE <<b, a>>

(***************************************************************************)
(* Knowledge base: the axiom functions                                     *)
(***************************************************************************)

axiom1_parent_ancestor(facts) ==
    {Fmt2("Ancestor(", p[1], p[2]) : p \in Pairs(facts, "Parent(")} \ facts

\* the join without its condition y1 == y2
axiom2_no_join(facts) ==
    LET ancestor_pairs == Pairs(facts, "Ancestor(")
    IN  {Fmt2("Ancestor(", pq[1][1], pq[2][2]) : pq \in ancestor_pairs \X ancestor_pairs} \ facts

axiom2_ancestor_transitive(facts) ==
    LET ancestor_pairs == Pairs(facts, "Ancestor(")
    IN  {Fmt2("Ancestor(", pq[1][1], pq[2][2]) :
            pq \in {r \in ancestor_pairs \X ancestor_pairs : r[1][2] = r[2][1]}} \ facts

axiom5_ancestor_hasdna(facts) ==
    {Fmt2("HasDNA(", p[1], p[2]) : p \in Pairs(facts, "Ancestor(")} \ facts

axiom8_dna_famous_trait(facts) ==
    LET has_dna_pairs == Pairs(facts, "HasDNA(")
        is_famous_people == {Strip(Content(f)) : f \in {g \in facts : StartsWith(g, "IsFamous(")}}
    IN  {Fmt1("MightInheritTrait(", p[2]) : p \in {q \in has_dna_pairs : q[1] \in is_famous_people}}
            \ facts

\* f"SharedParent_{x}_{y}"
SharedParentName(x, y) == <<"SharedParent_">> \o x \o <<"_">> \o y

axiom10_sibling_shared_parent(facts) ==
    LET existing_shared_parents ==
            {p[1] : p \in UNION {TwoParts(f) :
                        f \in {g \in facts : StartsWith(g, "Parent(") /\ Len(g) >= 2
                                               /\ g[2] = "SharedParent_"}}}
        sibling_pairs == {Sorted2(p[1], p[2]) : p \in Pairs(facts, "Sibling(")}
        fresh == {s \in sibling_pairs : SharedParentName(s[1], s[2]) \notin existing_shared_parents}
    IN  UNION {{Fmt2("Parent(", SharedParentName(s[1], s[2]), s[1]),
                Fmt2("Parent(", SharedParentName(s[1], s[2]), s[2])} : s \in fresh} \ facts

axiom11_hasdna_symmetric(facts) ==
    {Fmt2("HasDNA(", p[2], p[1]) : p \in Pairs(facts, "HasDNA(")} \ facts

\* the lemma reading its arguments without strip()
lemma_without_strip(facts) ==
    LET raw(pred) == UNION {LET parts == Split(Content(f))
                            IN  IF Len(parts) = 2 THEN {<<parts[1], parts[2]>>} ELSE {} :
                            f \in {g \in facts : StartsWith(g, pred)}}
        parent_pairs == raw("Parent(")
        sibling_pairs == raw("Sibling(") \cup {<<p[2], p[1]>> : p \in raw("Sibling(")}
    IN  {Fmt2("Ancestor(", ps[1][1], ps[2][2]) :
            ps \in {r \in parent_pairs \X sibling_pairs : r[1][2] = r[2][1]}} \ facts

lemma_link_parent_sibling_ancestor(facts) ==
    LET parent_pairs == Pairs(facts, "Parent(")
        sibling_pairs == Pairs(facts, "Sibling(") \cup {<<p[2], p[1]>> : p \in Pairs(facts, "Sibling(")}
    IN  {Fmt2("Ancestor(", ps[1][1], ps[2][2]) :
            ps \in {r \in parent_pairs \X sibling_pairs : r[1][2] = r[2][1]}} \ facts

\* calling an axiom function by name
CallAxiom(axiom_func, facts) ==
    CASE axiom_func = "axiom1_parent_ancestor" -> axiom1_parent_ancestor(facts)
      [] axiom_func = "axiom2_ancestor_transitive" -> axiom2_ancestor_transitive(facts)
      [] axiom_func = "axiom5_ancestor_hasdna" -> axiom5_ancestor_hasdna(facts)
      [] axiom_func = "axiom8_dna_famous_trait" -> axiom8_dna_famous_trait(facts)
      [] axiom_func = "axiom10_sibling_shared_parent" -> axiom10_sibling_shared_parent(facts)
      [] axiom_func = "axiom11_hasdna_symmetric" -> axiom11_hasdna_symmetric(facts)
      [] axiom_func = "lemma_link_parent_sibling_ancestor" -> lemma_link_parent_sibling_ancestor(facts)

axioms ==
    << "axiom1_parent_ancestor", "axiom2_ancestor_transitive", "axiom5_ancestor_hasdna",
       "axiom8_dna_famous_trait", "axiom10_sibling_shared_parent", "axiom11_hasdna_symmetric" >>

initial_facts ==
    { <<"Person(", "Alice", ")">>,
      <<"Person(", "Bob", ")">>,
      <<"Person(", "Charles", ")">>,
      <<"Parent(", "Alice", ",", " ", "Bob", ")">>,
      <<"Sibling(", "Bob", ",", " ", "Charles", ")">>,
      <<"IsFamous(", "Alice", ")">> }

goal == <<"MightInheritTrait(", "Charles", ")">>

DEPTH_LIMIT_STUCK == 3
DEPTH_LIMIT_BASELINE == 10
DEPTH_LIMIT_RERUN == 10
DEFAULT_MAX_ITERATIONS == 30

(***************************************************************************)
(* Bounds of the standalone calls of solve_forward_chaining                *)
(***************************************************************************)
MaxDepth == 3
MaxIterations == 3
MaxCurrentDepth == 1

\* facts the standalone calls draw initial_facts_state from
FactPool ==
    { <<"Parent(", "Alice", ",", " ", "Bob", ")">>,
      <<"Sibling(", "Bob", ",", " ", "Charles", ")">>,
      <<"IsFamous(", "Alice", ")">>,
      <<"Sibling(", "Charles", ",", "Bob", ")">>,
      <<"Parent(", "Alice", ")">>,
      goal }

GoalPool == {goal, <<"HasDNA(", "Bob", ",", "Alice", ")">>}

AxiomLists ==
    { axioms,
      <<>>,
      <<"axiom8_dna_famous_trait", "axiom5_ancestor_hasdna", "axiom1_parent_ancestor">>,
      axioms \o <<"lemma_link_parent_sibling_ancestor">> }

\* no SearchEngine instance exists
NoEngine ==
    [ status |-> "None", frontier |-> {}, closed |-> <<>>, seq |-> 0, steps |-> 0,
      budget |-> 0, goalSet |-> {}, result |-> "none" ]

(***************************************************************************)
(* solve_forward_chaining                                                  *)
(***************************************************************************)
VARIABLES
    run,                            \* "call": a standalone call; "run1".."run3", "end": the script
    axioms_to_use, initial_facts_state, target_goal,
    max_depth, max_iterations, current_depth,
    known_facts, final_depth_reached, iterations, depth,
    current_state_facts, newly_derived_facts_this_step, made_progress,
    pc,                             \* "for" (loop head), "post" (after the loop), "done" (returned)
    stop,                           \* how the loop was left
    ret,                            \* the returned tuple
    script,                         \* the script's globals
    engine                          \* the SearchEngine instance (status, Frontier, ClosedSet, ...)

solver_vars ==
    << axioms_to_use, initial_facts_state, target_goal, max_depth, max_iterations, current_depth,
       known_facts, final_depth_reached, iterations, depth, current_state_facts,
       newly_derived_facts_this_step, made_progress, pc, stop, ret >>

vars == << run, solver_vars, script, engine >>

\* for depth in range(current_depth, max_depth): the loop body runs for this depth
InRange_inclusive(d, limit) == d <= limit

InRange(d, limit) == d < limit

\* the inner loop over axioms_to_use, from index i on
RECURSIVE ApplyAxiomsFrom(_, _, _, _)
ApplyAxiomsFrom(axs, i, known, acc) ==
    IF i > Len(axs) THEN acc
    ELSE LET derived_by_axiom == CallAxiom(axs[i], known)
             really_new_facts == derived_by_axiom \ known
         IN  ApplyAxiomsFrom(axs, i + 1, known,
                 IF really_new_facts # {}
                 THEN [newly |-> acc.newly \cup really_new_facts, made_progress |-> TRUE]
                 ELSE acc)

\* the inner loop stopping one axiom early
ApplyAxioms_skip_last(axs, known) ==
    ApplyAxiomsFrom(SubSeq(axs, 1, Len(axs) - 1), 1, known, [newly |-> {}, made_progress |-> FALSE])

ApplyAxioms(axs, known) ==
    ApplyAxiomsFrom(axs, 1, known, [newly |-> {}, made_progress |-> FALSE])

\* the early return without known_facts.update(...)
GoalReturn_no_update(known, newly, reached) ==
    [solved |-> TRUE, final_facts |-> known, final_depth_reached |-> reached]

\* return True, known_facts, final_depth_reached (after the update of line 246)
GoalReturn(known, newly, reached) ==
    [solved |-> TRUE, final_facts |-> known \cup newly, final_depth_reached |-> reached]

\* the result computed after the loop
PostLoopReturn(known, target, reached) ==
    [solved |-> target \in known, final_facts |-> known, final_depth_reached |-> reached]

NoReturn == [solved |-> FALSE, final_facts |-> {}, final_depth_reached |-> 0]

\* the frame of a call as it starts
Enter(axs, facts, target, maxd, maxit, cur) ==
    [ axioms_to_use |-> axs, initial_facts_state |-> facts, target_goal |-> target,
      max_depth |-> maxd, max_iterations |-> maxit, current_depth |-> cur,
      known_facts |-> facts, final_depth_reached |-> cur, iterations |-> 0, depth |-> cur,
      current_state_facts |-> {}, newly_derived_facts_this_step |-> {}, made_progress |-> FALSE,
      pc |-> "for", stop |-> "none", ret |-> NoReturn ]

\* the loop body of one depth, given what the inner loop over the axioms derived
Body(l, step) ==
    LET m == [l EXCEPT !.iterations = @ + 1,
                       !.final_depth_reached = l.depth + 1,
                       !.current_state_facts = l.known_facts,
                       !.newly_derived_facts_this_step = step.newly,
                       !.made_progress = step.made_progress]
    IN  IF ~step.made_progress /\ step.newly = {}
        THEN [m EXCEPT !.pc = "post", !.stop = "fixed_point"]
        ELSE IF l.target_goal \in step.newly
        THEN [m EXCEPT !.known_facts = @ \cup step.newly,
                       !.pc = "done", !.stop = "goal",
                       !.ret = GoalReturn(l.known_facts, step.newly, l.depth + 1)]
        ELSE [m EXCEPT !.known_facts = IF step.newly # {} THEN @ \cup step.newly ELSE @,
                       !.depth = @ + 1]

\* one pass through the loop head and body, or the code after the loop
Iterate(l) ==
    IF l.pc = "for" THEN
        IF ~InRange(l.depth, l.max_depth) THEN [l EXCEPT !.pc = "post", !.stop = "range"]
        ELSE IF l.iterations >= l.max_iterations
        THEN [l EXCEPT !.pc = "post", !.stop = "max_iterations"]
        ELSE Body(l, ApplyAxioms(l.axioms_to_use, l.known_facts))
    ELSE IF l.pc = "post"
    THEN [l EXCEPT !.pc = "done",
                   !.ret = PostLoopReturn(l.known_facts, l.target_goal, l.final_depth_reached)]
    ELSE l

\* the whole call, to its return
RECURSIVE Solve(_)
Solve(l) == IF l.pc = "done" THEN l ELSE Solve(Iterate(l))

Frame ==
    [ axioms_to_use |-> axioms_to_use, initial_facts_state |-> initial_facts_state,
      target_goal |-> target_goal, max_depth |-> max_depth, max_iterations |-> max_iterations,
      current_depth |-> current_depth, known_facts |-> known_facts,
      final_depth_reached |-> final_depth_reached, iterations |-> iterations, depth |-> depth,
      current_state_facts |-> current_state_facts,
      newly_derived_facts_this_step |-> newly_derived_facts_this_step,
      made_progress |-> made_progress, pc |-> pc, stop |-> stop, ret |-> ret ]

SetFrame(l) ==
    /\ axioms_to_use' = l.axioms_to_use
    /\ initial_facts_state' = l.initial_facts_state
    /\ target_goal' = l.target_goal
    /\ max_depth' = l.max_depth
    /\ max_iterations' = l.max_iterations
    /\ current_depth' = l.current_depth
    /\ known_facts' = l.known_facts
    /\ final_depth_reached' = l.final_depth_reached
    /\ iterations' = l.iterations
    /\ depth' = l.depth
    /\ current_state_facts' = l.current_state_facts
    /\ newly_derived_facts_this_step' = l.newly_derived_facts_this_step
    /\ made_progress' = l.made_progress
    /\ pc' = l.pc
    /\ stop' = l.stop
    /\ ret' = l.ret

InitFrame(l) ==
    /\ axioms_to_use = l.axioms_to_use
    /\ initial_facts_state = l.initial_facts_state
    /\ target_goal = l.target_goal
    /\ max_depth = l.max_depth
    /\ max_iterations = l.max_iterations
    /\ current_depth = l.current_depth
    /\ known_facts = l.known_facts
    /\ final_depth_reached = l.final_depth_reached
    /\ iterations = l.iterations
    /\ depth = l.depth
    /\ current_state_facts = l.current_state_facts
    /\ newly_derived_facts_this_step = l.newly_derived_facts_this_step
    /\ made_progress = l.made_progress
    /\ pc = l.pc
    /\ stop = l.stop
    /\ ret = l.ret

\* the loop body is entered for this depth
BodyRuns == pc = "for" /\ InRange(depth, max_depth) /\ iterations < max_iterations

\* range(current_depth, max_depth) is exhausted
RangeExhausted ==
    /\ pc = "for" /\ ~InRange(depth, max_depth)
    /\ SetFrame(Iterate(Frame))
    /\ UNCHANGED <<run, script, engine>>

\* if iterations >= max_iterations: break
MaxIterationsReached ==
    /\ pc = "for" /\ InRange(depth, max_depth) /\ iterations >= max_iterations
    /\ SetFrame(Iterate(Frame))
    /\ UNCHANGED <<run, script, engine>>

\* a step in which no axiom derives a new fact: break
StepFixedPoint ==
    /\ BodyRuns
    /\ LET step == ApplyAxioms(axioms_to_use, known_facts)
       IN  /\ ~step.made_progress /\ step.newly = {}
           /\ SetFrame(Body(Frame, step))
    /\ UNCHANGED <<run, script, engine>>

\* a step that derives target_goal: return True
StepGoalDerived ==
    /\ BodyRuns
    /\ LET step == ApplyAxioms(axioms_to_use, known_facts)
       IN  /\ target_goal \in step.newly
           /\ SetFrame(Body(Frame, step))
    /\ UNCHANGED <<run, script, engine>>

\* a step that derives new facts, not the goal: next depth
StepProgress ==
    /\ BodyRuns
    /\ LET step == ApplyAxioms(axioms_to_use, known_facts)
       IN  /\ step.newly # {} /\ target_goal \notin step.newly
           /\ SetFrame(Body(Frame, step))
    /\ UNCHANGED <<run, script, engine>>

\* the code after the loop: return (target_goal in known_facts), known_facts, final_depth_reached
PostLoop ==
    /\ pc = "post"
    /\ SetFrame(Iterate(Frame))
    /\ UNCHANGED <<run, script, engine>>

(***************************************************************************)
(* The script: Run 1, Run 2, the hint, Run 3, the comparison               *)
(***************************************************************************)
NoScript ==
    [ solved1 |-> FALSE, final_facts1 |-> {}, stopped_depth1 |-> 0,
      solved_baseline |-> FALSE, stopped_depth_baseline |-> 0,
      derived_by_lemma |-> {}, solved_after_hint |-> FALSE, stopped_depth_after_hint |-> 0,
      conclusion |-> "none" ]

\* Run 1 returns; Run 2 is called
Run2Call ==
    /\ run = "run1" /\ pc = "done"
    /\ script' = [script EXCEPT !.solved1 = ret.solved, !.final_facts1 = ret.final_facts,
                                !.stopped_depth1 = ret.final_depth_reached]
    /\ SetFrame(Enter(axioms, initial_facts, goal, DEPTH_LIMIT_BASELINE, DEFAULT_MAX_ITERATIONS, 0))
    /\ run' = "run2"
    /\ UNCHANGED engine

\* Run 2 returns; the hint is applied to Run 1's facts and Run 3 is called, or the script ends
HintAndRun3Call ==
    /\ run = "run2" /\ pc = "done"
    /\ LET s == [script EXCEPT !.solved_baseline = ret.solved,
                               !.stopped_depth_baseline = ret.final_depth_reached]
           derived_by_lemma == lemma_link_parent_sibling_ancestor(s.final_facts1)
           current_facts_with_hint == s.final_facts1 \cup derived_by_lemma
           knowledge_updated == derived_by_lemma \ s.final_facts1 # {}
       IN  IF s.solved1
           THEN /\ script' = [s EXCEPT !.conclusion = "Run 1 already solved the goal"]
                /\ run' = "end"
                /\ UNCHANGED solver_vars
           ELSE IF derived_by_lemma = {}
           THEN /\ script' = [s EXCEPT !.conclusion = "Could not apply the suggested lemma"]
                /\ run' = "end"
                /\ UNCHANGED solver_vars
           ELSE IF ~knowledge_updated
           THEN /\ script' = [s EXCEPT !.derived_by_lemma = derived_by_lemma,
                                       !.conclusion = "Hint application did not yield new facts"]
                /\ run' = "end"
                /\ UNCHANGED solver_vars
           ELSE /\ script' = [s EXCEPT !.derived_by_lemma = derived_by_lemma]
                /\ SetFrame(Enter(axioms, current_facts_with_hint, goal, DEPTH_LIMIT_RERUN,
                                  DEFAULT_MAX_ITERATIONS, s.stopped_depth1))
                /\ run' = "run3"
    /\ UNCHANGED engine

\* Run 3 returns; the comparison
Comparison ==
    /\ run = "run3" /\ pc = "done"
    /\ script' = [script EXCEPT
            !.solved_after_hint = ret.solved,
            !.stopped_depth_after_hint = ret.final_depth_reached,
            !.conclusion =
                IF ret.solved
                THEN IF script.solved_baseline /\ ret.final_depth_reached < script.stopped_depth_baseline
                     THEN "Hint potentially improved efficiency"
                     ELSE IF script.solved_baseline
                     THEN "Hint allowed solving, but took same or more steps than baseline"
                     ELSE "Hint allowed solving where baseline failed"
                ELSE "Hint did not lead to solution within limit"]
    /\ run' = "end"
    /\ UNCHANGED <<solver_vars, engine>>

(***************************************************************************)
(* SearchEngine: best-first search over fact sets (specification 4.1-4.5)  *)
(***************************************************************************)
MaxBudget == 3
MaxOracle == 1

\* the sentinel of the fallback estimator for "unreachable"
Unreachable == 1000

\* the oracle call raised, timed out or answered without a number
OracleFailed == -1

Rules ==
    << [name |-> "r1", premises |-> {"A"}, conclusions |-> <<"B">>],
       [name |-> "r2", premises |-> {"A"}, conclusions |-> <<"H", "B">>],
       [name |-> "r3", premises |-> {"B", "H"}, conclusions |-> <<"G", "D">>] >>

EngineInitialStates == {{"A"}, {"B"}, {"A", "H"}}

EngineGoalSets == {{"G"}, {"D", "G"}, {"H"}, {"Z"}}

\* Rule.applicable(state)
Applicable(r, state) == r.premises \subseteq state

\* Rule.apply(state): one successor per conclusion, in declaration order
Apply(r, state) ==
    IF Applicable(r, state)
    THEN [i \in 1..Len(r.conclusions) |-> state \cup {r.conclusions[i]}]
    ELSE <<>>

\* RuleGraph.neighbors(atom)
Neighbors(atom) ==
    UNION {{r.conclusions[i] : i \in 1..Len(r.conclusions)} :
              r \in {Rules[k] : k \in {j \in 1..Len(Rules) : atom \in Rules[j].premises}}}

\* breadth-first traversal of the RuleGraph, one depth at a time
RECURSIVE BfsDepth(_, _, _, _)
BfsDepth(layer, visited, d, goalSet) ==
    IF layer \cap goalSet # {} THEN d
    ELSE IF layer = {} THEN Unreachable
    ELSE LET nxt == UNION {Neighbors(a) : a \in layer} \ visited
         IN  BfsDepth(nxt, visited \cup nxt, d + 1, goalSet)

\* the fallback strategy of HeuristicEstimator
FallbackEstimate(state, goalSet) ==
    IF state \cap goalSet # {} THEN 0 ELSE BfsDepth(state, state, 0, goalSet)

\* HeuristicEstimator.estimate, given what the oracle answered
Estimate(answer, state, goalSet) ==
    IF answer = OracleFailed THEN FallbackEstimate(state, goalSet) ELSE answer

OracleAnswers == {OracleFailed} \cup 0..MaxOracle

\* the order of the Frontier: (f, g, sequence number)
EntryLeq(a, b) ==
    \/ a.f < b.f
    \/ a.f = b.f /\ a.g < b.g
    \/ a.f = b.f /\ a.g = b.g /\ a.seq <= b.seq

\* Frontier.popMin()
PopMin(frontier) == CHOOSE e \in frontier : \A o \in frontier : EntryLeq(e, o)

\* the ClosedSet membership test skipped
InClosed_never(state, closed) == FALSE

\* State already in ClosedSet
InClosed(state, closed) == \E i \in 1..Len(closed) : closed[i] = state

\* the (rule, successor) candidates of an expansion: every rule, every successor of apply
RECURSIVE Candidates(_, _)
Candidates(k, state) ==
    IF k > Len(Rules) THEN <<>>
    ELSE [i \in 1..Len(Apply(Rules[k], state)) |->
             [rule |-> Rules[k].name, state |-> Apply(Rules[k], state)[i]]]
         \o Candidates(k + 1, state)

\* the candidates pushed: those not already in the ClosedSet
Pushed(state, closed) == SelectSeq(Candidates(1, state), LAMBDA c : ~InClosed(c.state, closed))

\* a fresh engine: the initial state pushed onto an empty Frontier
EngineReady ==
    /\ run = "engine"
    /\ script = NoScript
    /\ InitFrame(Enter(<<>>, {}, goal, 0, 0, 0))
    /\ \E initial \in EngineInitialStates, goalSet \in EngineGoalSets,
          budget \in 1..MaxBudget, answer \in OracleAnswers :
            engine = [ status |-> "Ready",
                       frontier |-> {[f |-> Estimate(answer, initial, goalSet), g |-> 0,
                                      seq |-> 0, state |-> initial, path |-> <<>>]},
                       closed |-> <<>>, seq |-> 1, steps |-> 0, budget |-> budget,
                       goalSet |-> goalSet, result |-> "none" ]

\* Ready -> Running
EngineStart ==
    /\ engine.status = "Ready"
    /\ engine' = [engine EXCEPT !.status = "Running"]
    /\ UNCHANGED <<run, solver_vars, script>>

\* the popped State intersects the goal set: Succeeded
EngineSucceed ==
    /\ engine.status = "Running" /\ engine.frontier # {}
    /\ LET e == PopMin(engine.frontier)
       IN  /\ e.state \cap engine.goalSet # {}
           /\ engine' = [engine EXCEPT !.status = "Succeeded",
                                       !.frontier = @ \ {e},
                                       !.result = [path |-> e.path, state |-> e.state, g |-> e.g]]
    /\ UNCHANGED <<run, solver_vars, script>>

\* the popped State is already in the ClosedSet: the entry is discarded
EngineDiscard ==
    /\ engine.status = "Running" /\ engine.frontier # {}
    /\ LET e == PopMin(engine.frontier)
       IN  /\ e.state \cap engine.goalSet = {}
           /\ InClosed(e.state, engine.closed)
           /\ engine' = [engine EXCEPT !.frontier = @ \ {e}]
    /\ UNCHANGED <<run, solver_vars, script>>

\* the popped State is inserted into the ClosedSet and expanded; the step counter is
\* incremented and checked against the budget
EngineExpand ==
    /\ engine.status = "Running" /\ engine.frontier # {}
    /\ LET e == PopMin(engine.frontier)
           closed == Append(engine.closed, e.state)
           pushed == Pushed(e.state, closed)
       IN  /\ e.state \cap engine.goalSet = {}
           /\ ~InClosed(e.state, engine.closed)
           /\ \E answers \in [1..Len(pushed) -> OracleAnswers] :
                engine' = [engine EXCEPT
                    !.closed = closed,
                    !.frontier = (@ \ {e}) \cup
                        {[f |-> e.g + 1 + Estimate(answers[i], pushed[i].state, engine.goalSet),
                          g |-> e.g + 1, seq |-> engine.seq + i - 1,
                          state |-> pushed[i].state,
                          path |-> Append(e.path, pushed[i].rule)] : i \in 1..Len(pushed)},
                    !.seq = @ + Len(pushed),
                    !.steps = @ + 1,
                    !.status = IF engine.steps + 1 > engine.budget THEN "Aborted" ELSE @,
                    !.result = IF engine.steps + 1 > engine.budget THEN "aborted" ELSE @]
    /\ UNCHANGED <<run, solver_vars, script>>

\* the Frontier is empty without success: Exhausted
EngineExhausted ==
    /\ engine.status = "Running" /\ engine.frontier = {}
    /\ engine' = [engine EXCEPT !.status = "Exhausted", !.result = "exhausted"]
    /\ UNCHANGED <<run, solver_vars, script>>

EngineNext ==
    \/ EngineStart
    \/ EngineSucceed
    \/ EngineDiscard
    \/ EngineExpand
    \/ EngineExhausted

SpecEngine == EngineReady /\ [][EngineNext]_vars

InitCall ==
    /\ run = "call"
    /\ engine = NoEngine
    /\ script = NoScript
    /\ \E axs \in AxiomLists,
          facts \in SUBSET FactPool,
          target \in GoalPool,
          maxd \in 0..MaxDepth, maxit \in 0..MaxIterations, cur \in 0..MaxCurrentDepth :
            InitFrame(Enter(axs, facts, target, maxd, maxit, cur))

InitScript ==
    /\ run = "run1"
    /\ engine = NoEngine
    /\ script = NoScript
    /\ InitFrame(Enter(axioms, initial_facts, goal, DEPTH_LIMIT_STUCK, DEFAULT_MAX_ITERATIONS, 0))

Init == InitCall \/ InitScript

Next ==
    \/ RangeExhausted
    \/ MaxIterationsReached
    \/ StepFixedPoint
    \/ StepGoalDerived
    \/ StepProgress
    \/ PostLoop
    \/ Run2Call
    \/ HintAndRun3Call
    \/ Comparison

Spec == Init /\ [][Next]_vars

(***************************************************************************)
(* Properties of solve_forward_chaining and of the script                  *)
(***************************************************************************)
Min(a, b) == IF a <= b THEN a ELSE b
Max(a, b) == IF a >= b THEN a ELSE b

IterationBound == Min(Max(0, max_depth - current_depth), max_iterations)

LoopLeft == pc \in {"post", "done"}

C2_SolvedIffGoalInFinalFacts ==
    pc = "done" => (ret.solved <=> target_goal \in ret.final_facts)

C2_Witness ==
    /\ pc = "done" /\ stop = "goal" /\ ret.solved
    /\ target_goal \notin initial_facts_state
    /\ iterations = IterationBound

\* C3: when the initial facts already contain the goal, the call returns success at once:
\* no axiom is applied, final_depth_reached is current_depth and final_facts are the
\* initial facts.
C3_GoalInInitialFactsReturnsAtOnce ==
    (pc = "done" /\ target_goal \in initial_facts_state) =>
        /\ ret.solved
        /\ iterations = 0
        /\ ret.final_depth_reached = current_depth
        /\ ret.final_facts = initial_facts_state

\* what the caller receives from a call
Returned(l) == l.ret

\* C4: a call stopped by the depth cap or the iteration limit (after at least one step,
\* without the goal) returns
\* something the caller can tell apart from success and from the fixed-point stop: no call
\* that stops at a fixed point returns the same tuple.
C4_AbortedDistinctFromExhausted ==
    (pc = "done" /\ stop \in {"range", "max_iterations"} /\ ~ret.solved /\ iterations >= 1) =>
        /\ \A maxd \in 0..MaxDepth, cur \in 0..MaxCurrentDepth :
             LET other == Solve(Enter(axioms_to_use, ret.final_facts, target_goal, maxd,
                                      DEFAULT_MAX_ITERATIONS, cur))
             IN  other.stop = "fixed_point" => Returned(other) # ret

\* C5: in Run 1 and Run 2 the goal is never among known_facts; Run 1 stops at the depth
\* cap of 3 unsolved, Run 2 stops at a fixed point before depth 10 unsolved.
C5_BaselineNeverDerivesGoal ==
    /\ run \in {"run1", "run2"} => goal \notin known_facts
    /\ (run = "run1" /\ pc = "done") =>
            /\ stop = "range" /\ ~ret.solved
            /\ ret.final_depth_reached = DEPTH_LIMIT_STUCK
    /\ run = "run2" => ~script.solved1 /\ script.stopped_depth1 = DEPTH_LIMIT_STUCK
    /\ (run = "run2" /\ pc = "done") =>
            /\ stop = "fixed_point" /\ ~ret.solved
            /\ ret.final_depth_reached < DEPTH_LIMIT_BASELINE

C5_Witness ==
    /\ run = "run2" /\ pc = "done" /\ stop = "fixed_point"
    /\ ret.final_facts # script.final_facts1

AncestorAliceCharles == <<"Ancestor(", "Alice", ",", "Charles", ")">>

\* C6: the lemma applied to Run 1's final facts derives Ancestor(Alice,Charles), which is
\* new; Run 3 starts from those facts at Run 1's stopping depth with limit 10, returns
\* solved = True with the goal derived, and the script ends in the branch "Hint allowed
\* solving where baseline failed".
C6_HintSolves ==
    /\ run \in {"run3", "end"} =>
            /\ AncestorAliceCharles \in script.derived_by_lemma
            /\ AncestorAliceCharles \notin script.final_facts1
    /\ run = "run3" =>
            /\ initial_facts_state = script.final_facts1 \cup script.derived_by_lemma
            /\ current_depth = script.stopped_depth1
            /\ max_depth = DEPTH_LIMIT_RERUN
    /\ (run = "run3" /\ pc = "done") => ret.solved /\ goal \in ret.final_facts /\ stop = "goal"
    /\ run = "end" =>
            /\ script.solved_after_hint /\ ~script.solved_baseline
            /\ script.conclusion = "Hint allowed solving where baseline failed"

C6_Witness ==
    /\ run = "end" /\ script.solved_after_hint
    /\ script.stopped_depth_after_hint > script.stopped_depth1

\* facts is closed under every axiom of axs
Closed(axs, facts) == \A i \in 1..Len(axs) : CallAxiom(axs[i], facts) \subseteq facts

\* C8: after the fixed-point break the facts (and the returned final_facts) are closed
\* under every supplied axiom, and what a step adds to known_facts is disjoint from
\* known_facts as it was when the step began.
C8_FixedPointClosed ==
    /\ (LoopLeft /\ stop = "fixed_point") => Closed(axioms_to_use, known_facts)
    /\ (pc = "done" /\ stop = "fixed_point") => Closed(axioms_to_use, ret.final_facts)
    /\ iterations > 0 =>
            /\ newly_derived_facts_this_step \cap current_state_facts = {}
            /\ known_facts = current_state_facts \cup newly_derived_facts_this_step

C8_Witness ==
    /\ pc = "done" /\ stop = "fixed_point"
    /\ iterations >= 2
    /\ known_facts # initial_facts_state
    /\ Len(axioms_to_use) >= 2

\* the entries popped so far: those pushed and no longer in the Frontier
Popped == engine.seq - Cardinality(engine.frontier)

\* C7: within one search run no State is inserted into the ClosedSet twice, and a popped
\* State that is already in the ClosedSet is discarded: the ClosedSet and the sequence
\* counter stay as they were and nothing is pushed.
C7_ClosedSetInsertsOnce ==
    /\ [](\A i, j \in 1..Len(engine.closed) :
            engine.closed[i] = engine.closed[j] => i = j)
    /\ [][(/\ engine.status = "Running" /\ engine.frontier # {}
           /\ PopMin(engine.frontier).state \cap engine.goalSet = {}
           /\ \E i \in 1..Len(engine.closed) :
                 engine.closed[i] = PopMin(engine.frontier).state)
          => /\ engine'.closed = engine.closed
             /\ engine'.seq = engine.seq
             /\ engine'.frontier = engine.frontier \ {PopMin(engine.frontier)}]_vars

\* an entry was discarded on pop (more pops than expansions) and the search went on
C7_Witness ==
    /\ engine.status = "Running"
    /\ Popped > Len(engine.closed)
    /\ Len(engine.closed) >= 2
====
